---- MODULE Spec2Model ----
(***************************************************************************)
(* Model of the streaming reducer of calendar-condenser-ui (src/src/App.tsx *)
(* lines 680-2361): the React state of App, the two async handlers          *)
(* handleStart and handleResume with the values their closures captured,    *)
(* and the per-line reducer both read loops run.                            *)
(*                                                                          *)
(* React state is one variable per useState cell.  A handler invocation is  *)
(* an entry of `handlers`; it carries the values of the render in which the *)
(* click happened (seenStateKeys, currentInterrupt: the handler reads them  *)
(* from its closure, never from the live state).  All setTimeline /         *)
(* setSeenStateKeys / setAccumulatedState calls of the loops are functional *)
(* updates, so applying them one after the other to the live state is what  *)
(* React computes.  A click runs the handler of the latest render, so the   *)
(* closure of a handler holds the state at the moment of the click.         *)
(*                                                                          *)
(* Spec lets every open stream deliver one line per read, drawn from the    *)
(* vocabulary `feed` chosen at the start; ChunkSpec follows one start       *)
(* stream as text cut into chunks at arbitrary places; ReducerSpec follows  *)
(* one read loop over records of every shape, those included whose state    *)
(* updater throws while App renders (`mounted` becomes false).              *)
(***************************************************************************)
EXTENDS Integers, Sequences, FiniteSets, TLC

\* ------------------------------------------------------------------ bounds
MaxRequests == 3      \* stream POSTs issued in one behaviour
MaxLines    == 3      \* lines handed to the reducer in one behaviour
MaxRecords  == 2      \* records in one response text (ChunkSpec)

\* ------------------------------------------------------------- JSON values
Null == [type |-> "null"]                     \* JS null / undefined

ConversationKey == "$.invoke_send_rescheduling_proposal_to_invitee"

\* An own key of a record that starts with "$.": its text is
\* base, then ":" uuid when hasColon, then "." stage when stage is not empty.
Key(base, hasColon, uuid, stage) ==
    [base |-> base, hasColon |-> hasColon, uuid |-> uuid, stage |-> stage]
RegularKey(base) == Key(base, FALSE, "", "")
SubgraphKey(uuid, stage) == Key(ConversationKey, TRUE, uuid, stage)

\* A parsed line.  type = "" stands for a record without a (truthy) type;
\* keys is the list of its own keys that start with "$." in insertion order
\* and payload the value under the first of them.
Blank ==
    [ok |-> TRUE, isNull |-> FALSE, type |-> "", id |-> "", hasContent |-> FALSE,
     content |-> <<>>, finish |-> "", value |-> "", keys |-> <<>>, payload |-> Null]

\* A line JSON.parse rejects.
Garbage == [Blank EXCEPT !.ok = FALSE]

\* The line `null`: JSON.parse returns null, and reading data.type throws inside
\* the try of the for loop.
JsonNull == [Blank EXCEPT !.isNull = TRUE]

AIChunk(id, hasContent, content, finish) ==
    [Blank EXCEPT !.type = "AIMessageChunk", !.id = id, !.hasContent = hasContent,
                  !.content = content, !.finish = finish]
InterruptRec(id, value) ==
    [Blank EXCEPT !.type = "interrupt", !.id = id, !.value = value]
LoadingRec == [Blank EXCEPT !.type = "loading", !.value = "working"]
StateRec(key, payload) == [Blank EXCEPT !.keys = <<key>>, !.payload = payload]
ResponseRec(type, payload) == [Blank EXCEPT !.type = type, !.payload = payload]

UserA == [id |-> "alice", given_name |-> "Alice"]
UserB == [id |-> "bob", given_name |-> "Bob"]
MsgAB == [platform_id |-> "slack", from_user |-> UserA, to_user |-> UserB]

\* data && data.f (every field value of this model is an object, so truthy)
Has(data, f) == data # Null /\ f \in DOMAIN data
\* data.f, undefined when absent
Field(data, f) == IF Has(data, f) THEN data[f] ELSE Null

\* The lines the backend may send, by the part of the workflow a run is in:
\* a run draws its lines from one of these vocabularies.
StateLines ==
    { StateRec(RegularKey("$.load_user"), [user |-> UserA]),
      StateRec(RegularKey("$.load_user"), Null),
      StateRec(RegularKey("$.load_calendar"), [calendar |-> [owner |-> "bob"]]),
      InterruptRec("i1", "go?"),
      Garbage }

MessageLines ==
    { AIChunk("m1", TRUE, <<"a">>, ""),
      AIChunk("m1", TRUE, <<"b">>, "stop"),
      AIChunk("m2", FALSE, <<>>, ""),
      InterruptRec("i1", "go?"),
      LoadingRec }

InterruptLines ==
    { InterruptRec("i1", "go?"),
      InterruptRec("i2", "sure?"),
      AIChunk("m1", TRUE, <<"a">>, "") }

SubgraphLines ==
    { StateRec(SubgraphKey("u1", "send_message"), [sent_message |-> MsgAB]),
      StateRec(SubgraphKey("u1", "analyze_message"),
               [message_analysis |-> [verdict |-> "positive"]]),
      StateRec(RegularKey(ConversationKey),
               [conversations_by_invitee |-> [bob |-> <<MsgAB>>]]),
      LoadingRec,
      ResponseRec("LoadUserResponse", [user |-> UserB]) }

Feeds == {StateLines, MessageLines, InterruptLines, SubgraphLines}

ThreadIds == {"t1"}
ResumeValues == {"CONFIRMED", "REJECTED"}

\* ------------------------------------------------------------------- state
VARIABLES
    threadId,                 \* useState(() => generateUUID()), fixed at mount
    mounted,                  \* the component tree is rendered: an error thrown while
                              \* rendering (no error boundary) unmounts it for good
    feed,                     \* environment: the lines the backend sends in this run
    isStarted,
    timeline,
    accumulatedState,
    seenStateKeys,
    waitingForNextState,
    currentInterrupt,
    isResuming,
    selectedInterruptOptions,
    subgraphMessages,
    conversations,
    handlers,                 \* the handleStart / handleResume invocations so far
    now,                      \* Date.now(): ticks once per line handed to the reducer
    chunkLog,                 \* history: per message id, the chunk contents of the session
    lastOp,                   \* history: the step just taken
    responseText, wire, handed \* ChunkSpec: the response text, what of it is still
                              \* to be read, and the records handed to the reducer

uiVars == <<isStarted, timeline, accumulatedState, seenStateKeys, waitingForNextState,
            currentInterrupt, isResuming, selectedInterruptOptions, subgraphMessages,
            conversations>>
tokVars == <<responseText, wire, handed>>
vars == <<threadId, feed, mounted, uiVars, handlers, now, chunkLog, lastOp, tokVars>>

\* ---------------------------------------------------------- timeline items
\* id stands for `${type}_${key}_${Date.now()}`: the key part is the item's own
\* messageId / stateKey / subgraphUuid / responseType field.
Item(type, at, text, content) ==
    [id |-> [kind |-> type, at |-> at], timestamp |-> at, type |-> type,
     text |-> text, content |-> content,
     stateKey |-> Null, messageId |-> "", responseType |-> "", subgraphUuid |-> ""]

\* findIndex(item => item.type === type && item[field] === value) from position
\* i: 0 stands for -1
RECURSIVE FindIndex(_, _, _, _, _)
FindIndex(tl, type, field, value, i) ==
    IF i > Len(tl) THEN 0
    ELSE IF tl[i].type = type /\ tl[i][field] = value THEN i
    ELSE FindIndex(tl, type, field, value, i + 1)

\* findLastIndex(item => item.type === type) from position i downwards: 0 stands
\* for -1
RECURSIVE FindLastIndex(_, _, _)
FindLastIndex(tl, type, i) ==
    IF i = 0 THEN 0
    ELSE IF tl[i].type = type THEN i
    ELSE FindLastIndex(tl, type, i - 1)

\* timeline.filter((_, index) => index !== k)
RemoveAt(tl, k) == [j \in 1..(Len(tl) - 1) |-> IF j < k THEN tl[j] ELSE tl[j + 1]]

\* mutant: the indicator is taken to be the last item
removeLastItem(tl) ==
    LET lastLoadingIndex == FindLastIndex(tl, "loading", Len(tl))
    IN  IF lastLoadingIndex # 0 THEN RemoveAt(tl, Len(tl)) ELSE tl

removeLastLoadingIndicator(tl) ==
    LET lastLoadingIndex == FindLastIndex(tl, "loading", Len(tl))
    IN  IF lastLoadingIndex # 0 THEN RemoveAt(tl, lastLoadingIndex) ELSE tl

\* mutant: the item is appended and the loading indicator stays
appendTimelineItem(tl, newItem) == Append(tl, newItem)

addTimelineItem(tl, newItem) == Append(removeLastLoadingIndicator(tl), newItem)

\* ------------------------------------------------------ accumulated state
EmptyAccumulated ==
    [user |-> Null, calendar |-> Null, invitees |-> Null, invitee_calendars |-> Null,
     pending_rescheduling_proposals |-> Null, conversations |-> Null]

\* The placeholder user built from a calendar's owner (its constant fields
\* timezone, avatar_url and preffered_working_hours are left out).
OwnerUser(calendar) == [id |-> calendar.owner, given_name |-> "User"]

WithCalendar(acc, data) ==
    LET a == [acc EXCEPT !.calendar = data.calendar]
    IN  IF a.user = Null /\ Has(data.calendar, "owner")
        THEN [a EXCEPT !.user = OwnerUser(data.calendar)]
        ELSE a

updateAccumulatedState(acc, stateKey, data) ==
    CASE stateKey = RegularKey("$.load_user") ->
            IF Has(data, "user") THEN [acc EXCEPT !.user = data.user] ELSE acc
      [] stateKey = RegularKey("$.load_calendar") ->
            IF Has(data, "calendar") THEN WithCalendar(acc, data) ELSE acc
      [] stateKey = RegularKey("$.load_calendar_after_update") ->
            IF Has(data, "calendar")
            THEN WithCalendar([acc EXCEPT !.pending_rescheduling_proposals = [list |-> <<>>]],
                              data)
            ELSE acc
      [] stateKey = RegularKey("$.load_invitees") ->
            IF Has(data, "invitees")
            THEN [acc EXCEPT !.invitees = data.invitees,
                             !.invitee_calendars =
                                 IF Has(data, "invitee_calendars")
                                 THEN data.invitee_calendars ELSE [list |-> <<>>]]
            ELSE acc
      [] stateKey = RegularKey("$.get_rescheduling_proposals") ->
            IF Has(data, "pending_rescheduling_proposals")
            THEN [acc EXCEPT !.pending_rescheduling_proposals =
                                 data.pending_rescheduling_proposals]
            ELSE acc
      [] OTHER -> acc

\* newState.conversations[k].push(m), creating the map and the list on demand
PushConversation(acc, k, m) ==
    LET c   == IF acc.conversations = Null THEN [x \in {} |-> <<>>] ELSE acc.conversations
        old == IF k \in DOMAIN c THEN c[k] ELSE <<>>
    IN  [acc EXCEPT !.conversations =
            [x \in DOMAIN c \cup {k} |-> IF x = k THEN Append(old, m) ELSE c[x]]]

updateAccumulatedStateFromResponse(acc, data) ==
    LET p == data.payload
    IN  CASE data.type = "LoadUserResponse" ->
                IF Has(p, "user") THEN [acc EXCEPT !.user = p.user] ELSE acc
          [] data.type = "LoadCalendarResponse" ->
                IF Has(p, "calendar") THEN WithCalendar(acc, p) ELSE acc
          [] data.type = "LoadInviteesResponse" ->
                IF Has(p, "invitees")
                THEN [acc EXCEPT !.invitees = p.invitees,
                                 !.invitee_calendars =
                                     IF Has(p, "invitee_calendars")
                                     THEN p.invitee_calendars ELSE [list |-> <<>>]]
                ELSE acc
          [] data.type = "GetReschedulingProposalsResponse" ->
                IF Has(p, "pending_rescheduling_proposals")
                THEN [acc EXCEPT !.pending_rescheduling_proposals =
                                     p.pending_rescheduling_proposals]
                ELSE acc
          [] data.type = "SendMessageResponse" ->
                IF Has(p, "sent_message")
                THEN LET a == PushConversation(acc, p.sent_message.to_user.id, p.sent_message)
                     IN  IF Has(p.sent_message, "from_user")
                         THEN [a EXCEPT !.user = p.sent_message.from_user] ELSE a
                ELSE acc
          [] data.type = "ReceiveMessageResponse" ->
                IF Has(p, "received_message")
                THEN PushConversation(acc, p.received_message.from_user.id,
                                      p.received_message)
                ELSE acc
          [] OTHER -> acc

\* ------------------------------------------- conversations and subgraphs
\* { ...prev, ...data.conversations_by_invitee }
processConversationResponse(conv, data) ==
    IF Has(data, "conversations_by_invitee")
    THEN LET add == data.conversations_by_invitee
         IN  [x \in DOMAIN conv \cup DOMAIN add |->
                 IF x \in DOMAIN add THEN add[x] ELSE conv[x]]
    ELSE conv

\* data.conversations_by_invitee is read inside the setConversations updater: with
\* data null the updater throws.  React calls an updater while rendering (an
\* updater it tries at once has its error put aside and is called again by the
\* render), so the error is thrown by the render.
ConversationUpdaterThrows(data) == data = Null

UnknownUser == [id |-> "", given_name |-> "Unknown"]

\* responseType.match(/\.invoke_send_rescheduling_proposal_to_invitee:([^.]+)\.(.+)/)
UuidMatch(key) ==
    key.base = ConversationKey /\ key.hasColon /\ key.uuid # "" /\ key.stage # ""

\* data.sent_message?.f || data.received_message?.f || fallback
MessageField(data, f, fallback) ==
    IF Has(Field(data, "sent_message"), f) THEN data.sent_message[f]
    ELSE IF Has(Field(data, "received_message"), f) THEN data.received_message[f]
    ELSE fallback

\* the setSubgraphMessages updater of processSubgraphMessageResponse
SubgraphStatusUpdate(sub, data, key) ==
    LET uuid  == key.uuid
        stage == key.stage
        init  == IF uuid \in DOMAIN sub THEN sub[uuid]
                 ELSE [uuid |-> uuid,
                       toUser |-> MessageField(data, "to_user", UnknownUser),
                       fromUser |-> MessageField(data, "from_user", UnknownUser),
                       platform |-> IF Has(Field(data, "sent_message"), "platform_id")
                                       \/ Has(Field(data, "received_message"), "platform_id")
                                    THEN "given" ELSE "slack",
                       sent |-> Null, received |-> Null, analyzed |-> Null]
        upd   == CASE stage = "send_message" /\ Has(data, "sent_message") ->
                         [init EXCEPT !.sent = data.sent_message]
                   [] stage = "receive_message" /\ Has(data, "received_message") ->
                         [init EXCEPT !.received = data.received_message]
                   [] stage = "analyze_message" /\ Has(data, "message_analysis") ->
                         [init EXCEPT !.analyzed = data]
                   [] OTHER -> init
    IN  [x \in DOMAIN sub \cup {uuid} |-> IF x = uuid THEN upd ELSE sub[x]]

\* the setSubgraphMessages updater reads data.sent_message when it initialises
\* the entry and in each case of its switch: with data null it throws
SubgraphUpdaterThrows(sub, data, key) ==
    /\ data = Null
    /\ \/ key.uuid \notin DOMAIN sub
       \/ key.stage \in {"send_message", "receive_message", "analyze_message"}

\* the setTimeline updater of processSubgraphMessageResponse
SubgraphTimelineUpdate(tl, data, key, t) ==
    LET uuid == key.uuid
        existingIndex == FindIndex(tl, "subgraph_status", "subgraphUuid", uuid, 1)
        content == [uuid |-> uuid, stage |-> key.stage, data |-> data]
    IN  IF existingIndex # 0
        THEN [tl EXCEPT ![existingIndex].timestamp = t, ![existingIndex].content = content]
        ELSE Append(tl, [Item("subgraph_status", t, <<>>, content)
                            EXCEPT !.subgraphUuid = uuid])

\* ---------------------------------------------------------------- reducer
\* The cells a read loop writes, as one record.
View ==
    [timeline |-> timeline, accumulatedState |-> accumulatedState,
     seenStateKeys |-> seenStateKeys, waitingForNextState |-> waitingForNextState,
     currentInterrupt |-> currentInterrupt, isResuming |-> isResuming,
     subgraphMessages |-> subgraphMessages, conversations |-> conversations,
     mounted |-> mounted]

\* An updater threw while App was rendering: nothing of the update is committed
\* and, App having no error boundary, React unmounts the tree.
Unmounted(s) == [s EXCEPT !.mounted = FALSE]

\* data.content || ""
ContentOrEmpty(data) == IF data.hasContent THEN data.content ELSE <<>>

\* mutant: an existing message's content is replaced by the chunk's
UpsertAIMessageReplacing(tl, data, t, viaAdd) ==
    LET messageId == data.id
        existingIndex == FindIndex(tl, "ai_message", "messageId", messageId, 1)
    IN  IF existingIndex # 0
        THEN [tl EXCEPT ![existingIndex].text = ContentOrEmpty(data),
                        ![existingIndex].timestamp = t]
        ELSE LET item == [Item("ai_message", t, ContentOrEmpty(data), Null)
                             EXCEPT !.messageId = messageId]
             IN  IF viaAdd THEN addTimelineItem(tl, item) ELSE Append(tl, item)

\* the setTimeline updater of the AIMessageChunk branch, on the list it is given;
\* a new message is added with addTimelineItem (handleResume) or spread (handleStart)
UpsertAIMessage(tl, data, t, viaAdd) ==
    LET messageId == data.id
        existingIndex == FindIndex(tl, "ai_message", "messageId", messageId, 1)
    IN  IF existingIndex # 0
        THEN [tl EXCEPT ![existingIndex].text = @ \o ContentOrEmpty(data),
                        ![existingIndex].timestamp = t]
        ELSE LET item == [Item("ai_message", t, ContentOrEmpty(data), Null)
                             EXCEPT !.messageId = messageId]
             IN  IF viaAdd THEN addTimelineItem(tl, item) ELSE Append(tl, item)

\* handleStart's branch: no loading indicator is removed
AIChunkInStart(s, data, t) ==
    [s EXCEPT !.waitingForNextState = IF data.finish = "stop" THEN TRUE ELSE @,
              !.timeline = UpsertAIMessage(@, data, t, FALSE)]

\* handleResume's branch: isResuming is cleared and the loading indicator removed
AIChunkInResume(s, data, t) ==
    [s EXCEPT !.waitingForNextState = IF data.finish = "stop" THEN TRUE ELSE @,
              !.isResuming = FALSE,
              !.timeline = UpsertAIMessage(removeLastLoadingIndicator(@), data, t, TRUE)]

\* the value setCurrentInterrupt(data) stores
InterruptOf(data) == [type |-> "interrupt", value |-> data.value, id |-> data.id]

InterruptBranch(s, data, t) ==
    [s EXCEPT !.currentInterrupt = InterruptOf(data),
              !.waitingForNextState = FALSE,
              !.timeline = addTimelineItem(@,
                  Item("interrupt", t, <<>>, InterruptOf(data)))]

LoadingBranch(s, data, t) ==
    [s EXCEPT !.waitingForNextState = FALSE,
              !.timeline = addTimelineItem(@,
                  Item("loading", t, <<>>, [message |-> data.value]))]

\* mutant: the seen keys are not consulted
RegularStateUpdateUnchecked(s, seen, stateKey, payload, t) ==
    [s EXCEPT !.seenStateKeys = @ \cup {stateKey},
              !.waitingForNextState = FALSE,
              !.timeline = IF payload # Null
                           THEN addTimelineItem(@,
                                   [Item("state_update", t, <<>>, payload)
                                       EXCEPT !.stateKey = stateKey])
                           ELSE @,
              !.accumulatedState = updateAccumulatedState(@, stateKey, payload)]

\* a regular state update; seen is the seenStateKeys of the handler's closure
RegularStateUpdate(s, seen, stateKey, payload, t) ==
    IF stateKey \notin seen
    THEN [s EXCEPT !.seenStateKeys = @ \cup {stateKey},
                   !.waitingForNextState = FALSE,
                   !.timeline = IF payload # Null
                                THEN addTimelineItem(@,
                                        [Item("state_update", t, <<>>, payload)
                                            EXCEPT !.stateKey = stateKey])
                                ELSE @,
                   !.accumulatedState = updateAccumulatedState(@, stateKey, payload)]
    ELSE s

processSubgraphMessageResponse(s, data, key, t) ==
    IF ~UuidMatch(key) THEN s
    ELSE IF SubgraphUpdaterThrows(s.subgraphMessages, data, key) THEN Unmounted(s)
    ELSE [s EXCEPT !.subgraphMessages = SubgraphStatusUpdate(@, data, key),
                   !.timeline =
                       IF key.stage = "send_message"
                          \/ (key.stage = "analyze_message" /\ Has(data, "message_analysis"))
                       THEN SubgraphTimelineUpdate(@, data, key, t)
                       ELSE @]

ResponseBranch(s, data, t) ==
    [s EXCEPT !.timeline = addTimelineItem(@,
                  [Item("response", t, <<>>, [type |-> data.type, payload |-> data.payload])
                      EXCEPT !.responseType = data.type]),
              !.accumulatedState = updateAccumulatedStateFromResponse(@, data)]

\* mutant: a truthy type is tested before the keys
ResponseOrKeyed(s, seen, data, t) ==
    IF data.type # ""
    THEN ResponseBranch(s, data, t)
    ELSE IF data.keys # <<>>
    THEN LET stateKey == data.keys[1]
         IN  IF stateKey = RegularKey(ConversationKey)
             THEN IF ConversationUpdaterThrows(data.payload) THEN Unmounted(s)
                  ELSE [s EXCEPT !.conversations =
                                     processConversationResponse(@, data.payload)]
             ELSE IF stateKey.base = ConversationKey /\ stateKey.hasColon
             THEN processSubgraphMessageResponse(s, data.payload, stateKey, t)
             ELSE RegularStateUpdate(s, seen, stateKey, data.payload, t)
    ELSE s

\* the else branch: state updates (first own key starting with "$.") and responses
KeyedOrResponse(s, seen, data, t) ==
    IF data.keys # <<>>
    THEN LET stateKey == data.keys[1]
         IN  IF stateKey = RegularKey(ConversationKey)
             THEN IF ConversationUpdaterThrows(data.payload) THEN Unmounted(s)
                  ELSE [s EXCEPT !.conversations =
                                     processConversationResponse(@, data.payload)]
             ELSE IF stateKey.base = ConversationKey /\ stateKey.hasColon
             THEN processSubgraphMessageResponse(s, data.payload, stateKey, t)
             ELSE RegularStateUpdate(s, seen, stateKey, data.payload, t)
    ELSE IF data.type # ""
    THEN ResponseBranch(s, data, t)
    ELSE s

\* One line of handleStart's loop (the body of its try / catch).
ReduceInStart(s, seen, data, t) ==
    IF ~data.ok \/ data.isNull THEN s
    ELSE IF data.type = "AIMessageChunk" THEN AIChunkInStart(s, data, t)
    ELSE IF data.type = "interrupt" THEN InterruptBranch(s, data, t)
    ELSE IF data.type = "loading" THEN LoadingBranch(s, data, t)
    ELSE KeyedOrResponse(s, seen, data, t)

\* One line of handleResume's loop.
ReduceInResume(s, seen, data, t) ==
    IF ~data.ok \/ data.isNull THEN s
    ELSE IF data.type = "AIMessageChunk" THEN AIChunkInResume(s, data, t)
    ELSE IF data.type = "interrupt" THEN InterruptBranch(s, data, t)
    ELSE IF data.type = "loading" THEN LoadingBranch(s, data, t)
    ELSE KeyedOrResponse(s, seen, data, t)

\* ---------------------------------------------------------------- handlers
\* One invocation of handleStart or handleResume: where it is (awaiting fetch,
\* in the read loop, returned), the request it sent, and what its closure holds.
\* keysBefore and sawBad are history fields.
Handler(kind, body, seen, interrupt, keysBefore) ==
    [kind |-> kind, pc |-> "fetch", thread |-> threadId, body |-> body,
     seen |-> seen, interrupt |-> interrupt, keysBefore |-> keysBefore, sawBad |-> FALSE]

\* history: the step just taken (h: the handler, arg: the value clicked, line: the
\* line reduced or, for a click on Confirm / Reject, the interrupt of the card)
Op(name, h, arg, line) == [op |-> name, h |-> h, arg |-> arg, line |-> line]

Running(h) == handlers[h].pc # "ended"

\* mutant: a handler that has finished sends its request again
Retried(hd) == [hd EXCEPT !.pc = "fetch"]

\* a handler that returned: its request stays on record, its closure is gone
Ended(hd) ==
    [hd EXCEPT !.pc = "ended", !.seen = {}, !.interrupt = Null, !.keysBefore = {},
               !.sawBad = FALSE]

\* the state keys that have a state_update item in the timeline
ItemKeys(tl) == {tl[i].stateKey : i \in {j \in DOMAIN tl : tl[j].type = "state_update"}}

NoChoices == [x \in {} |-> ""]
NoLog == [x \in {} |-> <<>>]

\* mutant: the recorded interrupt choices outlive the session
ResetForStartKeepingChoices ==
    /\ isStarted' = TRUE
    /\ timeline' = <<>>
    /\ accumulatedState' = EmptyAccumulated
    /\ seenStateKeys' = {}
    /\ waitingForNextState' = FALSE
    /\ currentInterrupt' = Null
    /\ isResuming' = FALSE
    /\ selectedInterruptOptions' = selectedInterruptOptions
    /\ subgraphMessages' = [x \in {} |-> Null]
    /\ conversations' = [x \in {} |-> <<>>]

\* the ten setters handleStart calls before its request
ResetForStart ==
    /\ isStarted' = TRUE
    /\ timeline' = <<>>
    /\ accumulatedState' = EmptyAccumulated
    /\ seenStateKeys' = {}
    /\ waitingForNextState' = FALSE
    /\ currentInterrupt' = Null
    /\ isResuming' = FALSE
    /\ selectedInterruptOptions' = NoChoices
    /\ subgraphMessages' = [x \in {} |-> Null]
    /\ conversations' = [x \in {} |-> <<>>]

\* what the cells of View become
SetView(s) ==
    /\ timeline' = s.timeline
    /\ accumulatedState' = s.accumulatedState
    /\ seenStateKeys' = s.seenStateKeys
    /\ waitingForNextState' = s.waitingForNextState
    /\ currentInterrupt' = s.currentInterrupt
    /\ isResuming' = s.isResuming
    /\ subgraphMessages' = s.subgraphMessages
    /\ conversations' = s.conversations
    /\ mounted' = s.mounted

\* --------------------------------------------------------------- rendering
StartButtonOffered == mounted /\ ~isStarted
TimelineDisplayed == mounted /\ isStarted

\* the Confirm / Reject buttons of the interrupt item at position i
ButtonsEnabled(i) ==
    LET id == timeline[i].content.id
        chosen == IF id \in DOMAIN selectedInterruptOptions
                  THEN selectedInterruptOptions[id] ELSE ""
    IN  /\ TimelineDisplayed
        /\ timeline[i].type = "interrupt"
        /\ ~(isResuming \/ chosen = "CONFIRMED" \/ chosen = "REJECTED")

\* ----------------------------------------------------------------- actions
\* click on "start": handleStart up to its await fetch
ClickStart ==
    /\ StartButtonOffered
    /\ Len(handlers) < MaxRequests
    /\ ResetForStart
    /\ handlers' = Append(handlers, Handler("start", Null, seenStateKeys, Null, {}))
    /\ chunkLog' = NoLog
    /\ lastOp' = Op("ClickStart", Len(handlers) + 1, "", Blank)
    /\ UNCHANGED <<threadId, feed, mounted, now, tokVars>>

\* mutant: the request carries the interrupt's text in place of its id
ResumeBodyWithValue(value, interrupt) ==
    [type |-> "resume", value |-> value, id |-> interrupt.value]

\* the resume request handleResume builds
ResumeBody(value, interrupt) == [type |-> "resume", value |-> value, id |-> interrupt.id]

\* handleResume(value) up to its await fetch, currentInterrupt being set
ResumeAccepted(value) ==
    /\ isResuming' = TRUE
    /\ selectedInterruptOptions' =
          [x \in DOMAIN selectedInterruptOptions \cup {currentInterrupt.id} |->
              IF x = currentInterrupt.id THEN value ELSE selectedInterruptOptions[x]]
    /\ currentInterrupt' = Null
    /\ handlers' = Append(handlers,
          Handler("resume", ResumeBody(value, currentInterrupt), seenStateKeys,
                  currentInterrupt, ItemKeys(timeline)))
    /\ UNCHANGED <<threadId, feed, mounted, isStarted, timeline, accumulatedState, seenStateKeys,
                   waitingForNextState, subgraphMessages, conversations, now, chunkLog,
                   tokVars>>

\* history: the interrupt record shown by the card at position i
Pressed(i) == InterruptRec(timeline[i].content.id, timeline[i].content.value)

\* click on Confirm or Reject of the interrupt item at position i
ClickResume(i, value) ==
    /\ i \in DOMAIN timeline
    /\ ButtonsEnabled(i)
    /\ IF currentInterrupt = Null
       THEN /\ lastOp' = Op("ResumeIgnored", 0, value, Pressed(i))
            /\ UNCHANGED <<threadId, feed, mounted, uiVars, handlers, now, chunkLog, tokVars>>
       ELSE /\ Len(handlers) < MaxRequests
            /\ lastOp' = Op("ClickResume", Len(handlers) + 1, value, Pressed(i))
            /\ ResumeAccepted(value)

\* await fetch resolves with a body: the handler enters its read loop
FetchResolves(h) ==
    /\ handlers[h].pc = "fetch"
    /\ handlers' = [handlers EXCEPT ![h].pc = "read"]
    /\ lastOp' = Op("FetchResolves", h, "", Blank)
    /\ UNCHANGED <<threadId, feed, mounted, uiVars, now, chunkLog, tokVars>>

\* mutant: the failure is only logged
StartCatchLogging ==
    UNCHANGED <<isStarted, timeline, accumulatedState, seenStateKeys, waitingForNextState,
                currentInterrupt, isResuming, selectedInterruptOptions,
                subgraphMessages, conversations>>

\* handleStart's catch
StartCatch ==
    /\ isStarted' = IF mounted THEN FALSE ELSE isStarted
    /\ UNCHANGED <<timeline, accumulatedState, seenStateKeys, waitingForNextState,
                   currentInterrupt, isResuming, selectedInterruptOptions,
                   subgraphMessages, conversations>>

\* mutant: the catch also leaves the started state, as handleStart's does
ResumeCatchResetting(h) ==
    /\ currentInterrupt' = handlers[h].interrupt
    /\ isResuming' = FALSE
    /\ isStarted' = FALSE
    /\ UNCHANGED <<timeline, accumulatedState, seenStateKeys,
                   waitingForNextState, selectedInterruptOptions, subgraphMessages,
                   conversations>>

\* mutant: the catch only logs; the finally block clears isResuming
ResumeCatchLogging(h) ==
    /\ isResuming' = FALSE
    /\ UNCHANGED <<isStarted, timeline, accumulatedState, seenStateKeys,
                   waitingForNextState, currentInterrupt, selectedInterruptOptions,
                   subgraphMessages, conversations>>

\* handleResume's catch and finally
ResumeCatch(h) ==
    /\ currentInterrupt' = IF mounted THEN handlers[h].interrupt ELSE currentInterrupt
    /\ isResuming' = IF mounted THEN FALSE ELSE isResuming
    /\ UNCHANGED <<isStarted, timeline, accumulatedState, seenStateKeys,
                   waitingForNextState, selectedInterruptOptions, subgraphMessages,
                   conversations>>

Catch(h) == IF handlers[h].kind = "start" THEN StartCatch ELSE ResumeCatch(h)

\* fetch rejects, or resolves with no body ("No response body" is thrown)
FetchFails(h, cause) ==
    /\ handlers[h].pc = "fetch"
    /\ Catch(h)
    /\ handlers' = [handlers EXCEPT ![h] = Ended(@)]
    /\ lastOp' = Op(cause, h, "", Blank)
    /\ UNCHANGED <<threadId, feed, mounted, now, chunkLog, tokVars>>

\* reader.read() rejects
ReadFails(h) ==
    /\ handlers[h].pc = "read"
    /\ Catch(h)
    /\ handlers' = [handlers EXCEPT ![h] = Ended(@)]
    /\ lastOp' = Op("ReadFails", h, "", Blank)
    /\ UNCHANGED <<threadId, feed, mounted, now, chunkLog, tokVars>>

\* mutant: the loop ends and isResuming is left as it is
ReadDoneKeepingResuming(h) ==
    /\ handlers[h].pc = "read"
    /\ handlers' = [handlers EXCEPT ![h] = Ended(@)]
    /\ lastOp' = Op("ReadDone", h, "", Blank)
    /\ UNCHANGED <<threadId, feed, mounted, uiVars, now, chunkLog, tokVars>>

\* reader.read() reports done: the loop ends; handleResume's finally runs
ReadDone(h) ==
    /\ handlers[h].pc = "read"
    /\ handlers' = [handlers EXCEPT ![h] = Ended(@)]
    /\ isResuming' = IF mounted /\ handlers[h].kind = "resume"
                     THEN FALSE ELSE isResuming
    /\ lastOp' = Op("ReadDone", h, "", Blank)
    /\ UNCHANGED <<threadId, feed, mounted, isStarted, timeline, accumulatedState, seenStateKeys,
                   waitingForNextState, currentInterrupt, selectedInterruptOptions,
                   subgraphMessages, conversations, now, chunkLog, tokVars>>

\* the setters of an unmounted component do nothing
Reduce(h, s, data, t) ==
    IF ~s.mounted THEN s
    ELSE IF handlers[h].kind = "start"
    THEN ReduceInStart(s, handlers[h].seen, data, t)
    ELSE ReduceInResume(s, handlers[h].seen, data, t)

\* mutant: a line that fails to parse ends the loop
AfterLineStopping(hd, data) ==
    IF data.ok THEN hd ELSE Ended(hd)

\* the handler after one pass of the for loop: the catch inside the loop only logs,
\* so the loop goes on to the next line whether or not the line parsed
AfterLine(hd, data) == [hd EXCEPT !.sawBad = @ \/ ~data.ok]

\* history: the chunk contents of the session, per message id
Logged(log, data) ==
    IF data.ok /\ data.type = "AIMessageChunk"
    THEN [x \in DOMAIN log \cup {data.id} |->
             IF x = data.id
             THEN (IF x \in DOMAIN log THEN log[x] ELSE <<>>) \o ContentOrEmpty(data)
             ELSE log[x]]
    ELSE log

\* reader.read() delivers a chunk holding one line: one pass of the for loop
ReadLine(h, data) ==
    /\ handlers[h].pc = "read"
    /\ now < MaxLines
    /\ SetView(Reduce(h, View, data, now + 1))
    /\ now' = now + 1
    /\ handlers' = [handlers EXCEPT ![h] = AfterLine(@, data)]
    /\ chunkLog' = Logged(chunkLog, data)
    /\ lastOp' = Op("ReadLine", h, "", data)
    /\ UNCHANGED <<threadId, feed, isStarted, selectedInterruptOptions, tokVars>>

\* the page as App first renders it: every useState cell at its initial value
PageLoaded ==
    /\ threadId \in ThreadIds
    /\ mounted = TRUE
    /\ isStarted = FALSE
    /\ timeline = <<>>
    /\ accumulatedState = EmptyAccumulated
    /\ seenStateKeys = {}
    /\ waitingForNextState = FALSE
    /\ currentInterrupt = Null
    /\ isResuming = FALSE
    /\ selectedInterruptOptions = NoChoices
    /\ subgraphMessages = [x \in {} |-> Null]
    /\ conversations = [x \in {} |-> <<>>]
    /\ handlers = <<>>
    /\ now = 0
    /\ chunkLog = NoLog
    /\ lastOp = Op("Init", 0, "", Blank)
    /\ responseText = <<>>
    /\ wire = <<>>
    /\ handed = <<>>

Init ==
    /\ feed \in Feeds
    /\ PageLoaded

Next ==
    \/ ClickStart
    \/ \E i \in 1..MaxLines, value \in ResumeValues : ClickResume(i, value)
    \/ \E h \in DOMAIN handlers : FetchResolves(h)
    \/ \E h \in DOMAIN handlers : FetchFails(h, "FetchRejects")
    \/ \E h \in DOMAIN handlers : FetchFails(h, "NoBody")
    \/ \E h \in DOMAIN handlers : ReadFails(h)
    \/ \E h \in DOMAIN handlers : ReadDone(h)
    \/ \E h \in DOMAIN handlers, data \in feed : ReadLine(h, data)

Spec == Init /\ [][Next]_vars

\* ----------------------------------------------------- requests that settle
\* LiveSpec is Spec with every request settling: a fetch that was sent resolves or
\* fails, and a stream that is being read ends or fails.  Its backend speaks the
\* vocabulary that has both an interrupt and AI message chunks.

LiveInit == Init /\ feed = MessageLines

\* await fetch settles
FetchSettles(h) ==
    /\ h \in DOMAIN handlers
    /\ FetchResolves(h) \/ FetchFails(h, "FetchRejects") \/ FetchFails(h, "NoBody")

\* the stream ends: reader.read() reports done or rejects
StreamEnds(h) ==
    /\ h \in DOMAIN handlers
    /\ ReadDone(h) \/ ReadFails(h)

Settling ==
    \A h \in 1..MaxRequests : WF_vars(FetchSettles(h)) /\ WF_vars(StreamEnds(h))

LiveSpec == LiveInit /\ [][Next]_vars /\ Settling

\* ------------------------------------------------- the read loop's tokenizer
\* ChunkSpec follows one handleStart through its read loop with the response as
\* text: reader.read() cuts the text anywhere, and each chunk is decoded, split
\* and parsed on its own, as the loop does.

NL == "\n"

\* JSON.stringify of the records of this specification.  The text of an object
\* is written "{", one letter for what is between the braces, "}": no proper part
\* of an object's text is JSON.
Encodings ==
    { [data |-> StateRec(RegularKey("$.load_user"), [user |-> UserA]),
       text |-> <<"{", "u", "}">>],
      [data |-> AIChunk("m1", TRUE, <<"a">>, ""), text |-> <<"{", "m", "}">>],
      [data |-> InterruptRec("i1", "go?"), text |-> <<"{", "i", "}">>] }

\* String.prototype.trim (the whitespace of this model is the blank and the newline)
RECURSIVE TrimLeft(_)
TrimLeft(str) ==
    IF str # <<>> /\ Head(str) \in {" ", NL} THEN TrimLeft(Tail(str)) ELSE str
RECURSIVE TrimRight(_)
TrimRight(str) ==
    IF str # <<>> /\ str[Len(str)] \in {" ", NL}
    THEN TrimRight(SubSeq(str, 1, Len(str) - 1)) ELSE str
Trim(str) == TrimRight(TrimLeft(str))

\* JSON.parse(line): the record, or Garbage when it throws
JSONParse(line) ==
    IF \E e \in Encodings : e.text = Trim(line)
    THEN (CHOOSE e \in Encodings : e.text = Trim(line)).data
    ELSE Garbage

RECURSIVE SplitFrom(_, _)
\* chunk.split("\n"), cur being the piece under construction
SplitFrom(str, cur) ==
    IF str = <<>> THEN <<cur>>
    ELSE IF Head(str) = NL THEN <<cur>> \o SplitFrom(Tail(str), <<>>)
    ELSE SplitFrom(Tail(str), Append(cur, Head(str)))

\* chunk.split("\n").filter((line) => line.trim())
LinesOf(chunk) == SelectSeq(SplitFrom(chunk, <<>>), LAMBDA line : Trim(line) # <<>>)

\* the records among the lines of a text
RecordsOf(str) ==
    LET parsed == [i \in DOMAIN LinesOf(str) |-> JSONParse(LinesOf(str)[i])]
    IN  SelectSeq(parsed, LAMBDA data : data.ok)

RECURSIVE ReduceLines(_, _, _, _)
\* the for loop of handleStart over the lines of one chunk
ReduceLines(s, seen, lines, t) ==
    IF lines = <<>> \/ ~s.mounted THEN s
    ELSE ReduceLines(ReduceInStart(s, seen, JSONParse(Head(lines)), t + 1), seen,
                     Tail(lines), t + 1)

RECURSIVE LogLines(_, _)
LogLines(log, lines) ==
    IF lines = <<>> THEN log
    ELSE LogLines(Logged(log, JSONParse(Head(lines))), Tail(lines))

RECURSIVE Texts(_)
\* the response texts of n records, each record followed by a newline
Texts(n) ==
    IF n = 0 THEN {<<>>}
    ELSE {e.text \o <<NL>> \o rest : e \in Encodings, rest \in Texts(n - 1)}

ResponseTexts == UNION {Texts(n) : n \in 1..MaxRecords}

\* the state when handleStart's fetch has resolved, the response text being chosen
ChunkInit ==
    /\ threadId \in ThreadIds
    /\ mounted = TRUE
    /\ feed = {e.data : e \in Encodings}
    /\ isStarted = TRUE
    /\ timeline = <<>>
    /\ accumulatedState = EmptyAccumulated
    /\ seenStateKeys = {}
    /\ waitingForNextState = FALSE
    /\ currentInterrupt = Null
    /\ isResuming = FALSE
    /\ selectedInterruptOptions = NoChoices
    /\ subgraphMessages = [x \in {} |-> Null]
    /\ conversations = [x \in {} |-> <<>>]
    /\ handlers = <<[Handler("start", Null, {}, Null, {}) EXCEPT !.pc = "read"]>>
    /\ now = 0
    /\ chunkLog = NoLog
    /\ lastOp = Op("FetchResolves", 1, "", Blank)
    /\ responseText \in ResponseTexts
    /\ wire = responseText
    /\ handed = <<>>

\* reader.read() delivers the next n characters: one pass of the while loop
ReadChunk(n) ==
    LET chunk == SubSeq(wire, 1, n)
        lines == LinesOf(chunk)
    IN  /\ handlers[1].pc = "read"
        /\ n \in 1..Len(wire)
        /\ SetView(ReduceLines(View, handlers[1].seen, lines, now))
        /\ now' = now + Len(lines)
        /\ wire' = SubSeq(wire, n + 1, Len(wire))
        /\ handed' = handed \o RecordsOf(chunk)
        /\ chunkLog' = LogLines(chunkLog, lines)
        /\ handlers' = [handlers EXCEPT ![1].sawBad =
                            @ \/ \E i \in DOMAIN lines : ~JSONParse(lines[i]).ok]
        /\ lastOp' = Op("ReadChunk", 1, "", Blank)
        /\ UNCHANGED <<threadId, feed, isStarted, selectedInterruptOptions, responseText>>

\* the response text is exhausted: reader.read() reports done
ChunkReadDone ==
    /\ wire = <<>>
    /\ ReadDone(1)

\* reader.read() rejects
ChunkReadFails == ReadFails(1)

ChunkNext ==
    \/ \E n \in 1..Len(wire) : ReadChunk(n)
    \/ ChunkReadDone
    \/ ChunkReadFails

ChunkSpec == ChunkInit /\ [][ChunkNext]_vars

\* ------------------------------------------------- the reducer on any record
\* ReducerSpec follows one read loop, of handleStart or of handleResume, over
\* records of every shape: records that meet several tests of the reducer at
\* once, null payloads, the line `null`, an unknown type, an empty object.

MixedLines ==
    { [AIChunk("m1", TRUE, <<"a">>, "") EXCEPT
           !.keys = <<RegularKey("$.load_user")>>, !.payload = [user |-> UserA]],
      [InterruptRec("i2", "sure?") EXCEPT
           !.keys = <<RegularKey(ConversationKey)>>,
           !.payload = [conversations_by_invitee |-> [bob |-> <<MsgAB>>]]],
      [LoadingRec EXCEPT
           !.keys = <<SubgraphKey("u1", "send_message")>>,
           !.payload = [sent_message |-> MsgAB]],
      [StateRec(RegularKey("$.load_user"), [user |-> UserA]) EXCEPT
           !.type = "LoadUserResponse"],
      [StateRec(RegularKey(ConversationKey),
                [conversations_by_invitee |-> [bob |-> <<MsgAB>>]]) EXCEPT
           !.type = "SendMessageResponse"],
      StateRec(SubgraphKey("u1", "send_message"), [sent_message |-> MsgAB]),
      StateRec(RegularKey("$.load_calendar"), Null),
      StateRec(RegularKey(ConversationKey), Null),
      StateRec(SubgraphKey("u1", "analyze_message"), Null),
      StateRec(SubgraphKey("u1", "thinking"), Null),
      ResponseRec("LoadUserResponse", [user |-> UserB]),
      ResponseRec("SomethingElse", Null),
      Blank,
      JsonNull }

\* the interrupt the resumed loop of ReducerSpec answers
AnsweredInterrupt == InterruptOf(InterruptRec("i1", "go?"))

\* handleStart in its read loop, nothing read yet
ReducerInitStart ==
    /\ timeline = <<>>
    /\ isResuming = FALSE
    /\ selectedInterruptOptions = NoChoices
    /\ handlers = <<[Handler("start", Null, {}, Null, {}) EXCEPT !.pc = "read"]>>
    /\ now = 0
    /\ lastOp = Op("FetchResolves", 1, "", Blank)

\* handleResume in its read loop: the start stream delivered one interrupt and
\* ended, Confirm was clicked and the resume request resolved
ReducerInitResume ==
    /\ timeline = <<Item("interrupt", 1, <<>>, AnsweredInterrupt)>>
    /\ isResuming = TRUE
    /\ selectedInterruptOptions = [x \in {"i1"} |-> "CONFIRMED"]
    /\ handlers = << Ended(Handler("start", Null, {}, Null, {})),
                     [Handler("resume", ResumeBody("CONFIRMED", AnsweredInterrupt), {},
                              AnsweredInterrupt, {}) EXCEPT !.pc = "read"] >>
    /\ now = 1
    /\ lastOp = Op("FetchResolves", 2, "", Blank)

ReducerInit ==
    /\ threadId \in ThreadIds
    /\ mounted = TRUE
    /\ feed = MixedLines
    /\ isStarted = TRUE
    /\ accumulatedState = EmptyAccumulated
    /\ seenStateKeys = {}
    /\ waitingForNextState = FALSE
    /\ currentInterrupt = Null
    /\ subgraphMessages = [x \in {} |-> Null]
    /\ conversations = [x \in {} |-> <<>>]
    /\ chunkLog = NoLog
    /\ responseText = <<>>
    /\ wire = <<>>
    /\ handed = <<>>
    /\ (ReducerInitStart \/ ReducerInitResume)

ReducerNext ==
    \/ \E h \in DOMAIN handlers, data \in feed : ReadLine(h, data)
    \/ \E h \in DOMAIN handlers : ReadDone(h)
    \/ \E h \in DOMAIN handlers : ReadFails(h)

ReducerSpec == ReducerInit /\ [][ReducerNext]_vars

\* ------------------------------------------------------ rendering the timeline
\* RenderSpec is the page with a backend that sends sub-workflow records of two
\* uuids between other records, so that the timeline holds runs of
\* subgraph_status items; Rendered is what timeline.map returns for it.

GroupLines ==
    { StateRec(SubgraphKey("u1", "send_message"), [sent_message |-> MsgAB]),
      StateRec(SubgraphKey("u2", "send_message"), [sent_message |-> MsgAB]),
      StateRec(SubgraphKey("u1", "analyze_message"),
               [message_analysis |-> [verdict |-> "positive"]]),
      AIChunk("m1", TRUE, <<"a">>, ""),
      InterruptRec("i1", "go?") }

RenderInit ==
    /\ feed = GroupLines
    /\ PageLoaded

RenderSpec == RenderInit /\ [][Next]_vars

\* renderTimelineItem: one element with key item.id for each type it knows,
\* null for any other
renderTimelineItem(item) ==
    IF item.type \in {"ai_message", "interrupt", "state_update", "response", "loading"}
    THEN [element |-> item.type, key |-> item.id]
    ELSE Null

\* one entry of subgraphGroup.map: a card if subgraphMessages has a status for
\* the item's uuid, null otherwise
MessageStatusCard(sub, subgraphItem) ==
    LET uuid == subgraphItem.content.uuid
    IN  IF uuid \in DOMAIN sub
        THEN [element |-> "MessageStatusComponent", key |-> subgraphItem.id,
              status |-> sub[uuid]]
        ELSE Null

\* the for loop that collects subgraphGroup: the items from position i up to
\* the first one of another type
RECURSIVE subgraphGroup(_, _)
subgraphGroup(tl, i) ==
    IF i > Len(tl) \/ tl[i].type # "subgraph_status" THEN <<>>
    ELSE <<tl[i]>> \o subgraphGroup(tl, i + 1)

\* mutant: every subgraph_status item opens a group
OpensGroupAnywhere(tl, index) == TRUE

\* !prevItem || prevItem.type !== 'subgraph_status'
OpensGroup(tl, index) == index = 1 \/ tl[index - 1].type # "subgraph_status"

\* the callback of timeline.map at position index
RenderedAt(tl, sub, index) ==
    IF tl[index].type = "subgraph_status"
    THEN IF OpensGroup(tl, index)
         THEN LET group == subgraphGroup(tl, index)
              IN  [element |-> "subgraph-group", key |-> index,
                   children |-> [k \in DOMAIN group |-> MessageStatusCard(sub, group[k])]]
         ELSE Null
    ELSE renderTimelineItem(tl[index])

\* timeline.map(...) of the current state
Rendered == [index \in DOMAIN timeline |-> RenderedAt(timeline, subgraphMessages, index)]

\* ================================================================== claims
StateItemCount(tl, k) ==
    Cardinality({i \in DOMAIN tl : tl[i].type = "state_update" /\ tl[i].stateKey = k})

\* the step just taken is a failure (fetch or read) of a handler of this kind
Failed(op, kind) ==
    /\ op.op \in {"FetchRejects", "NoBody", "ReadFails"}
    /\ handlers[op.h].kind = kind

\* C1: within a session every regular state key has at most one state_update
\* item in the timeline, however many records carry it.
C1_OneItemPerStateKey ==
    \A k \in ItemKeys(timeline) : StateItemCount(timeline, k) <= 1

\* C2: every record of the response reaches the reducer once and in stream order,
\* however the text is cut into chunks: when the text is exhausted the records
\* handed over are the records of the text.
C2_RecordsHandedOnce ==
    (wire = <<>>) => handed = RecordsOf(responseText)

\* C3: at most one streaming response is being read at any moment: while one
\* handler is in its read loop no other request is outstanding.
C3_OneStreamingRead ==
    \A h1, h2 \in DOMAIN handlers :
        (h1 # h2 /\ handlers[h1].pc = "read") => ~Running(h2)

\* C4: a line that fails to parse changes no state cell, and the handler stays
\* in its read loop, so the lines after it are still processed.
C4_ParseFailureSkipped ==
    [][(lastOp'.op = "ReadLine" /\ ~lastOp'.line.ok)
          => (UNCHANGED uiVars /\ handlers'[lastOp'.h].pc = "read")]_vars

\* a line was reduced, with effect, by a handler that met an unparseable line before
C4_Witness ==
    /\ lastOp.op = "ReadLine"
    /\ lastOp.line.ok
    /\ handlers[lastOp.h].sawBad
    /\ timeline # <<>>
    /\ timeline[Len(timeline)].id.at = now

\* C5: when the start request or a read of its stream fails, isStarted is false:
\* the start button is offered again and the timeline is not displayed.
C5_StartFailureResets ==
    Failed(lastOp, "start") => (~isStarted /\ StartButtonOffered /\ ~TimelineDisplayed)

\* a read of the start stream failed after lines had arrived
C5_Witness ==
    /\ lastOp.op = "ReadFails"
    /\ handlers[lastOp.h].kind = "start"
    /\ timeline # <<>>
    /\ ~isStarted

\* C6 as stated, for a resume that fails while no other stream is open: a
\* failure of the resume request or of its stream resets the UI to not started.
C6_ResumeFailureResets ==
    (Failed(lastOp, "resume") /\ \A h \in DOMAIN handlers : ~Running(h)) => ~isStarted

\* C6 amended: a failure of the resume request or of its stream leaves isStarted
\* as it was, and isResuming is false afterwards.
C6_ResumeFailureKeepsStarted ==
    [][Failed(lastOp', "resume") => (isStarted' = isStarted /\ ~isResuming')]_vars

\* a resume failed and the UI is still started
C6_Witness ==
    /\ Failed(lastOp, "resume")
    /\ isStarted

NonLoadingIds(tl) ==
    LET kept == SelectSeq(tl, LAMBDA item : item.type # "loading")
    IN  [i \in DOMAIN kept |-> kept[i].id]

ItemIds(tl) == {tl[i].id : i \in DOMAIN tl}

\* b follows a in one reducer step: the items that are not loading indicators keep
\* their order, at most one item is new, and a new item is the last one
KeepsOrder(a, b) ==
    LET x == NonLoadingIds(a)
        y == NonLoadingIds(b)
        new == ItemIds(b) \ ItemIds(a)
    IN  /\ Len(y) >= Len(x)
        /\ SubSeq(y, 1, Len(x)) = x
        /\ Cardinality(new) <= 1
        /\ new # {} => b[Len(b)].id \in new

\* C7: within a session (every step but an accepted Start) the items other than
\* loading indicators are never removed or reordered, and a step adds at most
\* one item, at the end.
C7_TimelineOrder ==
    [][lastOp'.op # "ClickStart" => KeepsOrder(timeline, timeline')]_vars

\* an item that is not the last one was updated in place
C7_Witness ==
    /\ Len(timeline) >= 2
    /\ timeline[1].timestamp > timeline[2].timestamp
    /\ timeline[1].id.at < timeline[2].id.at

AIItems(tl, m) == {i \in DOMAIN tl : tl[i].type = "ai_message" /\ tl[i].messageId = m}

\* C8: for every message id the timeline holds exactly one ai_message item once a
\* chunk with that id was processed in the session, none otherwise, and its
\* content is the concatenation of the chunks' contents in arrival order.
C8_ChunksGrouped ==
    /\ \A m \in DOMAIN chunkLog :
          /\ Cardinality(AIItems(timeline, m)) = 1
          /\ \A i \in AIItems(timeline, m) : timeline[i].text = chunkLog[m]
    /\ \A i \in DOMAIN timeline :
          timeline[i].type = "ai_message" => timeline[i].messageId \in DOMAIN chunkLog

\* the chunks of one message arrived on both sides of a pause
C8_Witness ==
    /\ lastOp.op = "ReadLine"
    /\ handlers[lastOp.h].kind = "resume"
    /\ "m1" \in DOMAIN chunkLog
    /\ chunkLog["m1"] = <<"a", "b">>

IsRegular(data) ==
    /\ data.ok
    /\ data.type \notin {"AIMessageChunk", "interrupt", "loading"}
    /\ data.keys # <<>>
    /\ data.keys[1].base # ConversationKey

\* the step reduces, in a resumed stream, a regular key that had an item in the
\* timeline when the resume was clicked
RepeatsKeyAfterPause(op) ==
    /\ op.op = "ReadLine"
    /\ handlers[op.h].kind = "resume"
    /\ IsRegular(op.line)
    /\ op.line.keys[1] \in handlers[op.h].keysBefore

\* C9: a regular state key that had a state_update item before the pause gets
\* no second item from a record of the resumed stream.
C9_DedupAcrossPause ==
    [][RepeatsKeyAfterPause(lastOp')
          => StateItemCount(timeline', lastOp'.line.keys[1])
                <= StateItemCount(timeline, lastOp'.line.keys[1])]_vars

\* a resumed stream delivered a key again whose item is in the timeline
C9_Witness ==
    /\ RepeatsKeyAfterPause(lastOp)
    /\ lastOp.line.payload # Null
    /\ StateItemCount(timeline, lastOp.line.keys[1]) = 1

\* handleResume(value) ran with an interrupt pending
ResumeSent(value) ==
    LET r == handlers'[Len(handlers')]
    IN  /\ currentInterrupt # Null
        /\ Len(handlers') = Len(handlers) + 1
        /\ SubSeq(handlers', 1, Len(handlers)) = handlers
        /\ r.kind = "resume"
        /\ r.thread = threadId
        /\ \A h \in DOMAIN handlers : handlers[h].thread = r.thread
        /\ r.body = [type |-> "resume", value |-> value, id |-> currentInterrupt.id]
        /\ currentInterrupt.id \in DOMAIN selectedInterruptOptions'
        /\ selectedInterruptOptions'[currentInterrupt.id] = value
        /\ isResuming'
        /\ currentInterrupt' = Null

\* C10: handleResume with an interrupt pending sends one POST to the page's
\* thread with {type: "resume", value, id of the pending interrupt}, records the
\* value under that id, sets isResuming and clears the pending interrupt; with
\* none pending it sends nothing and changes nothing.
C10_Resume ==
    [][/\ lastOp'.op = "ClickResume" => ResumeSent(lastOp'.arg)
       /\ lastOp'.op = "ResumeIgnored"
             => (currentInterrupt = Null /\ UNCHANGED <<uiVars, handlers>>)]_vars

\* a click was ignored for want of a pending interrupt, after a resume was sent
C10_Witness ==
    /\ lastOp.op = "ResumeIgnored"
    /\ \E h \in DOMAIN handlers :
          /\ handlers[h].kind = "resume"
          /\ handlers[h].body.id \in DOMAIN selectedInterruptOptions
          /\ selectedInterruptOptions[handlers[h].body.id] = handlers[h].body.value

\* the step is an accepted click: handleStart or handleResume ran up to its fetch
AcceptedClick(op) == op.op \in {"ClickStart", "ClickResume"}

\* the step is a failure of a request or of a read of its stream
Failure(op) == op.op \in {"FetchRejects", "NoBody", "ReadFails"}

\* C11: every stream POST is sent by an accepted click and every accepted click
\* sends one: a step adds a request exactly when it is an accepted Start, Confirm
\* or Reject, no handler ever goes back to awaiting a fetch, and a handler whose
\* request or read failed has returned.
C11_NoAutomaticRequest ==
    [][/\ Len(handlers') = Len(handlers) + (IF AcceptedClick(lastOp') THEN 1 ELSE 0)
       /\ \A h \in DOMAIN handlers :
             /\ handlers'[h].body = handlers[h].body
             /\ handlers'[h].pc = "fetch" => handlers[h].pc = "fetch"
       /\ Failure(lastOp') => handlers'[lastOp'.h].pc = "ended"]_vars

\* a resume failed after the start stream had ended: two clicks, two requests,
\* and nothing outstanding
C11_Witness ==
    /\ Failed(lastOp, "resume")
    /\ Len(handlers) = 2
    /\ \A h \in DOMAIN handlers : ~Running(h)

\* the branch the stated precedence gives a parsed record
BranchOf(data) ==
    IF data.type = "AIMessageChunk" THEN "ai"
    ELSE IF data.type = "interrupt" THEN "interrupt"
    ELSE IF data.type = "loading" THEN "loading"
    ELSE IF data.keys # <<>>
    THEN (IF data.keys[1] = RegularKey(ConversationKey) THEN "conversation"
          ELSE IF data.keys[1].base = ConversationKey /\ data.keys[1].hasColon
          THEN "subgraph"
          ELSE "regular")
    ELSE IF data.type # "" THEN "response"
    ELSE "none"

\* what one branch alone does with the record, in a loop of this kind
BranchEffect(b, kind, s, seen, data, t) ==
    CASE b = "ai" -> IF kind = "start" THEN AIChunkInStart(s, data, t)
                     ELSE AIChunkInResume(s, data, t)
      [] b = "interrupt" -> InterruptBranch(s, data, t)
      [] b = "loading" -> LoadingBranch(s, data, t)
      [] b = "conversation" ->
            IF ConversationUpdaterThrows(data.payload) THEN Unmounted(s)
            ELSE [s EXCEPT !.conversations = processConversationResponse(@, data.payload)]
      [] b = "subgraph" -> processSubgraphMessageResponse(s, data.payload, data.keys[1], t)
      [] b = "regular" -> RegularStateUpdate(s, seen, data.keys[1], data.payload, t)
      [] b = "response" -> ResponseBranch(s, data, t)
      [] OTHER -> s

\* C12: a parsed record is handled by one branch, chosen in the order
\* AIMessageChunk, interrupt, loading, first "$." key (conversation, subgraph,
\* regular), other truthy type: the step's effect is that branch's effect, and a
\* record that matches none changes no state.
C12_BranchPrecedence ==
    [][(lastOp'.op = "ReadLine" /\ lastOp'.line.ok /\ mounted)
          => /\ View' = BranchEffect(BranchOf(lastOp'.line), handlers[lastOp'.h].kind,
                                     View, handlers[lastOp'.h].seen, lastOp'.line, now')
             /\ BranchOf(lastOp'.line) = "none" => UNCHANGED uiVars]_vars

\* a record with a "$." key and a response type was reduced as a state update
C12_Witness ==
    /\ lastOp.op = "ReadLine"
    /\ lastOp.line.type = "LoadUserResponse"
    /\ lastOp.line.keys # <<>>
    /\ lastOp.line.keys[1] \in seenStateKeys
    /\ timeline # <<>>
    /\ timeline[Len(timeline)].type = "state_update"
    /\ timeline[Len(timeline)].id.at = now

\* C13: no parsed record, whatever its shape, stops the stream from being
\* consumed: the record is handled or skipped, after it the handler is still in
\* its read loop and App is still mounted, so that the records after it are
\* reduced into the state on display.
C13_NoRecordStopsStream ==
    [][(lastOp'.op = "ReadLine" /\ lastOp'.line.ok /\ mounted)
          => (mounted' /\ handlers'[lastOp'.h].pc = "read")]_vars

\* C14: right after an accepted Start click the timeline, the accumulated state,
\* the seen keys, the subgraph statuses, the conversations and the recorded
\* choices are empty, no interrupt is pending, and waitingForNextState and
\* isResuming are false.
C14_StartFromInitial ==
    lastOp.op = "ClickStart"
       => /\ timeline = <<>>
          /\ accumulatedState = EmptyAccumulated
          /\ seenStateKeys = {}
          /\ DOMAIN subgraphMessages = {}
          /\ DOMAIN conversations = {}
          /\ DOMAIN selectedInterruptOptions = {}
          /\ currentInterrupt = Null
          /\ ~waitingForNextState
          /\ ~isResuming

\* Start was clicked again after a session that failed with an interrupt answered
C14_Witness ==
    /\ lastOp.op = "ClickStart"
    /\ lastOp.h > 1
    /\ \E h \in DOMAIN handlers : handlers[h].kind = "resume"

LoadingItems(tl) == {i \in DOMAIN tl : tl[i].type = "loading"}

\* C15: an item of another type is never added behind a loading indicator that
\* stays: a loading item, when present, is the last item of the timeline.
C15_LoadingIsLast ==
    \A i \in LoadingItems(timeline) : i = Len(timeline)

\* C16: the timeline holds at most one loading item.
C16_OneLoadingItem ==
    Cardinality(LoadingItems(timeline)) <= 1

\* a loading record arrived while an earlier loading indicator, with a newer item
\* behind it, was in the timeline: the earlier indicator is gone
C16_Witness ==
    /\ lastOp.op = "ReadLine"
    /\ lastOp.line.type = "loading"
    /\ now = 3
    /\ Len(timeline) = 2
    /\ timeline[1].id.at = 2
    /\ timeline[2].type = "loading"
    /\ timeline[2].id.at = 3

\* the cells both loops write, isResuming left out
Reduced(s) == [s EXCEPT !.isResuming = FALSE]

\* C17: for the same prior state and the same record the start loop and the
\* resume loop produce the same timeline, accumulated state, seen keys, pending
\* interrupt, subgraph statuses, conversations and waitingForNextState.
C17_LoopsReduceAlike ==
    \A data \in feed :
        Reduced(ReduceInStart(View, seenStateKeys, data, now + 1))
            = Reduced(ReduceInResume(View, seenStateKeys, data, now + 1))

\* C18: a resume request carries the id of the interrupt whose Confirm or Reject
\* button was pressed, and the value is recorded under that id.
C18_ResumeCarriesPressedId ==
    lastOp.op = "ClickResume"
       => /\ handlers[lastOp.h].body.id = lastOp.line.id
          /\ lastOp.line.id \in DOMAIN selectedInterruptOptions
          /\ selectedInterruptOptions[lastOp.line.id] = lastOp.arg

\* C19: within a session (every step but an accepted Start) a recorded choice
\* never changes, and no resume request is sent for an id that has a recorded
\* choice.
C19_AnsweredOnce ==
    [][lastOp'.op # "ClickStart"
          => /\ \A id \in DOMAIN selectedInterruptOptions :
                   /\ id \in DOMAIN selectedInterruptOptions'
                   /\ selectedInterruptOptions'[id] = selectedInterruptOptions[id]
             /\ lastOp'.op = "ClickResume"
                   => handlers'[lastOp'.h].body.id \notin DOMAIN selectedInterruptOptions
      ]_vars

\* C20: when a resume request or a read of its stream has failed, the pending
\* interrupt is the one the request answered and isResuming is false.
C20_FailedResumeRestores ==
    Failed(lastOp, "resume")
       => /\ currentInterrupt # Null
          /\ currentInterrupt.id = handlers[lastOp.h].body.id
          /\ ~isResuming

\* a read of the resumed stream failed after the stream had delivered another
\* interrupt: the one that was answered is pending again
C20_Witness ==
    /\ lastOp.op = "ReadFails"
    /\ handlers[lastOp.h].kind = "resume"
    /\ currentInterrupt # Null
    /\ currentInterrupt.id = handlers[lastOp.h].body.id
    /\ \E i \in DOMAIN timeline :
          timeline[i].type = "interrupt" /\ timeline[i].content.id # currentInterrupt.id

\* the cards of the pending interrupt
PendingCards == {i \in DOMAIN timeline : /\ timeline[i].type = "interrupt"
                                          /\ timeline[i].content.id = currentInterrupt.id}

\* C21: after a failed resume, the session being on display, the card of the
\* restored interrupt offers Confirm and Reject again, so that a click on it
\* sends a new resume request for that interrupt.
C21_RestoredCanBeAnswered ==
    (Failed(lastOp, "resume") /\ isStarted /\ mounted /\ currentInterrupt # Null)
       => /\ PendingCards # {}
          /\ \A i \in PendingCards : ButtonsEnabled(i)

\* C22: the pending interrupt, when there is one, is the interrupt received last
\* in the session, also after a resumed stream that delivered it has failed.
C22_PendingIsLatest ==
    currentInterrupt # Null
       => LET last == FindLastIndex(timeline, "interrupt", Len(timeline))
          IN  /\ last # 0
              /\ timeline[last].content = currentInterrupt

\* the step is handleResume reducing an AIMessageChunk, or handleResume returning
ClearsResuming(op) ==
    /\ op.h \in DOMAIN handlers
    /\ handlers[op.h].kind = "resume"
    /\ \/ op.op = "ReadLine" /\ op.line.ok /\ op.line.type = "AIMessageChunk"
       \/ op.op \in {"ReadDone", "FetchRejects", "NoBody", "ReadFails"}

\* C23: every request settling, isResuming, once true, becomes false again;
\* it is false after handleResume has reduced an AIMessageChunk and after
\* handleResume has returned, normally or by failure.
C23_ResumingEnds ==
    /\ isResuming ~> ~isResuming
    /\ [][ClearsResuming(lastOp') => ~isResuming']_vars

\* a resumed stream ended without any AIMessageChunk: the finally block cleared
\* isResuming
C23_Witness ==
    /\ lastOp.op = "ReadDone"
    /\ handlers[lastOp.h].kind = "resume"
    /\ DOMAIN chunkLog = {}
    /\ ~isResuming

\* position i holds a subgraph_status item
IsSubgraph(i) == timeline[i].type = "subgraph_status"

\* the maximal run of consecutive subgraph_status items around position i
RunOf(i) ==
    {j \in DOMAIN timeline :
        \A k \in DOMAIN timeline : (k >= j /\ k <= i) \/ (k >= i /\ k <= j) => IsSubgraph(k)}

\* the first position of a set of positions
FirstOf(run) == CHOOSE j \in run : \A k \in run : j <= k

\* the keys of the cards and items an element displays, in order
KeysShown(el) ==
    IF el = Null THEN <<>>
    ELSE IF el.element = "subgraph-group"
    THEN LET cards == SelectSeq(el.children, LAMBDA c : c # Null)
         IN  [k \in DOMAIN cards |-> cards[k].key]
    ELSE <<el.key>>

\* the keys displayed by the elements at positions i and after it
RECURSIVE KeysFrom(_, _)
KeysFrom(els, i) ==
    IF i > Len(els) THEN <<>> ELSE KeysShown(els[i]) \o KeysFrom(els, i + 1)

\* C24: the rendered timeline shows every item once and in timeline order; a
\* subgraph_status item is shown as a card of the group at the first position of
\* its maximal run, which holds one card for each item of the run, and nowhere
\* else; every other item is shown by an element of its own at its position.
C24_RenderGroups ==
    /\ KeysFrom(Rendered, 1) = [i \in DOMAIN timeline |-> timeline[i].id]
    /\ \A i \in DOMAIN timeline :
          IF IsSubgraph(i)
          THEN LET first == FirstOf(RunOf(i))
                   group == Rendered[first]
               IN  /\ group # Null
                   /\ group.element = "subgraph-group"
                   /\ Len(group.children) = Cardinality(RunOf(i))
                   /\ group.children[i - first + 1] # Null
                   /\ group.children[i - first + 1].key = timeline[i].id
                   /\ i # first => Rendered[i] = Null
          ELSE /\ Rendered[i] # Null
               /\ Rendered[i].element = timeline[i].type
               /\ Rendered[i].key = timeline[i].id

\* the displayed timeline holds a run of two subgraph_status items next to an
\* item of another type: one group of two cards, and nothing for the second item
C24_Witness ==
    /\ TimelineDisplayed
    /\ \E i \in DOMAIN timeline :
          /\ i + 1 \in DOMAIN timeline
          /\ IsSubgraph(i) /\ IsSubgraph(i + 1)
          /\ Len(Rendered[FirstOf(RunOf(i))].children) = 2
          /\ Rendered[i + 1] = Null
    /\ \E j \in DOMAIN timeline : ~IsSubgraph(j)

====
